---- MODULE Spec2Model ----
(***************************************************************************)
(* Model of fluent/client/ws_client.go: the websocket client WSClient, its *)
(* session, the default connection factory and the IAMAuthInfo credential  *)
(* holder.                                                                 *)
(*                                                                         *)
(* Spec      the lifecycle calls (Connect, Disconnect, Reconnect,          *)
(*           SendMessage, Listen) issued one after another by the          *)
(*           controlling thread, with a collaborator that refreshes the    *)
(*           token between two calls.                                      *)
(* SpecAuth  IAMToken / SetIAMToken run by concurrent callers, one lock    *)
(*           operation or one memory access per step.                      *)
(***************************************************************************)
EXTENDS Integers, Sequences, FiniteSets, TLC

\* ---------------------------------------------------------------- bounds
MaxConns == 2      \* raw connections the environment ever opens
NumErrs == 2       \* distinct error values per failing collaborator
NumTokens == 1     \* distinct non-empty token values
NumAddrs == 2      \* distinct server addresses
NumProcs == 3      \* concurrent callers of IAMAuthInfo
MaxOps == 3        \* IAMToken/SetIAMToken calls started in one behaviour

VARIABLES
    ConnectionFactory,  \* WSClient.ConnectionFactory
    ServerAddress,      \* WSClient.ServerAddress
    AuthInfo,           \* WSClient.AuthInfo: "nil" or the reference "ai"
    ConnectionOptions,  \* WSClient.ConnectionOptions
    Session,            \* WSClient.Session
    conns,              \* the raw connections opened so far, by id
    token,              \* IAMAuthInfo.token, a string header (data, len)
    mutex,              \* IAMAuthInfo.mutex
    call,               \* the last call that returned: what it did and returned
    pc,                 \* position of each thread inside the call it runs
    loc,                \* locals and bookkeeping of each thread
    hist                \* SpecAuth: the values written to token, in order,
                        \* the latest write whose call returned, the calls started

vars == <<ConnectionFactory, ServerAddress, AuthInfo, ConnectionOptions,
          Session, conns, token, mutex, call, pc, loc, hist>>

clientVars == <<ConnectionFactory, ServerAddress, AuthInfo, ConnectionOptions,
                Session, conns, call>>

authProcVars == <<pc, loc, hist, mutex>>

\* ------------------------------------------------------------ values
\* error values: nil, an error of some collaborator, or a panic
Nil == <<"nil", 0>>

Panic == <<"panic", 0>>

NoActiveSession == <<"No active session", 0>>

Errs(kind) == {<<kind, i>> : i \in 1..NumErrs}

\* the result of a call that hands back raw connection id
ConnRef(id) == <<"conn", id>>

\* a Go string is a (data, len) header; token value i is a string of length i
Str(i) == [data |-> i, len |-> i]

Tokens == 0..NumTokens

StrLen(s) == s.len

Addrs == 1..NumAddrs

Procs == 1..NumProcs

\* *WSSession: nil, or a session
NilSession == [ServerAddress |-> 0, Connection |-> [raw |-> 0, opts |-> "none"]]

WSSession(addr, connection) == [ServerAddress |-> addr, Connection |-> connection]

\* WSConnectionFactory values: the nil interface, a caller-supplied factory,
\* or a *DefaultWSConnectionFactory
NilFactory == [kind |-> "nil", ServerAddress |-> 0, AuthInfo |-> "nil"]

CustomFactory == [kind |-> "custom", ServerAddress |-> 0, AuthInfo |-> "nil"]

DefaultWSConnectionFactory(addr, auth) ==
    [kind |-> "default", ServerAddress |-> addr, AuthInfo |-> auth]

\* http.Header: `var header http.Header` is the nil map
NilHeader == [isNil |-> TRUE, Authorization |-> <<>>]

\* one thing a call did to a collaborator
Event(ev, obj, hdr, res) == [ev |-> ev, obj |-> obj, hdr |-> hdr, res |-> res]

NoLocals == [op |-> "none", arg |-> 0, data |-> 0, len |-> 0, start |-> 0, idx |-> 0,
             chk |-> NilSession, sess |-> NilSession, header |-> NilHeader,
             trace |-> <<>>, ret |-> Nil]

NoCall == [op |-> "none", pre |-> NilSession, trace |-> <<>>, ret |-> Nil]

\* the client, the connections and the token as one value, so that the
\* methods compose (Reconnect = Disconnect, then Connect)
World == [ConnectionFactory |-> ConnectionFactory, ServerAddress |-> ServerAddress,
          AuthInfo |-> AuthInfo, ConnectionOptions |-> ConnectionOptions,
          Session |-> Session, conns |-> conns, token |-> token,
          trace |-> <<>>, ret |-> Nil]

Log(w, e) == [w EXCEPT !.trace = Append(@, e)]

\* result i of a collaborator: 0 is success, i > 0 its i-th error
Err(kind, i) == IF i = 0 THEN Nil ELSE <<kind, i>>

\* ------------------------------------------------ IAMAuthInfo, whole calls
\* IAMToken(): the token read under the read lock
IAMToken(w) == w.token

\* SetIAMToken(token): the token replaced under the write lock
SetIAMToken(w, t) == [w EXCEPT !.token = Str(t)]

\* ------------------------------------------- DefaultWSConnectionFactory
\* http.Header.Add: an assignment to an entry of the map, which panics on
\* the nil map
HeaderAdd(h, value) ==
    IF h.isNil
    THEN [panic |-> TRUE, header |-> h]
    ELSE [panic |-> FALSE,
          header |-> [h EXCEPT !.Authorization = Append(@, value)]]

\* websocket.Dialer.Dial(addr, header): outcome d of the environment
Dial(w, addr, header, d) ==
    LET id == Len(w.conns) + 1
        res == IF d = 0 THEN ConnRef(id) ELSE Err("dial", d)
        w1 == Log(w, Event("Dial", addr, header.Authorization, res))
    IN IF d = 0
       THEN [w1 EXCEPT !.conns = Append(@, [state |-> "open", closes |-> 0]),
                       !.ret = res]
       ELSE [w1 EXCEPT !.ret = res]

\* New that dials a second time when the first dial failed
DefaultNew_Retry(w, d) ==
    LET wcf == w.ConnectionFactory
        header == NilHeader
        check == IAMToken(w)
        w1 == Log(w, Event("IAMToken", 0, <<>>, <<"token", check.data>>))
        value == IAMToken(w1)
        w2 == Log(w1, Event("IAMToken", 0, <<>>, <<"token", value.data>>))
        added == HeaderAdd(header, value.data)
        from == IF wcf.AuthInfo # "nil" THEN w1 ELSE w
        first == Dial(from, wcf.ServerAddress, header, d)
    IN IF wcf.AuthInfo # "nil" /\ StrLen(check) > 0
       THEN IF added.panic
            THEN [w2 EXCEPT !.ret = Panic]
            ELSE Dial(w2, wcf.ServerAddress, added.header, d)
       ELSE IF first.ret[1] = "conn"
            THEN first
            ELSE Dial(first, wcf.ServerAddress, header, d)

\* DefaultWSConnectionFactory.New
DefaultNew(w, d) ==
    LET wcf == w.ConnectionFactory
        header == NilHeader
        check == IAMToken(w)
        w1 == Log(w, Event("IAMToken", 0, <<>>, <<"token", check.data>>))
        value == IAMToken(w1)
        w2 == Log(w1, Event("IAMToken", 0, <<>>, <<"token", value.data>>))
        added == HeaderAdd(header, value.data)
    IN IF wcf.AuthInfo # "nil" /\ StrLen(check) > 0
       THEN IF added.panic
            THEN [w2 EXCEPT !.ret = Panic]
            ELSE Dial(w2, wcf.ServerAddress, added.header, d)
       ELSE IF wcf.AuthInfo # "nil"
            THEN Dial(w1, wcf.ServerAddress, header, d)
            ELSE Dial(w, wcf.ServerAddress, header, d)

\* New() of a caller-supplied WSConnectionFactory: outcome d of the environment
CustomNew(w, d) ==
    LET id == Len(w.conns) + 1
    IN IF d = 0
       THEN [w EXCEPT !.conns = Append(@, [state |-> "open", closes |-> 0]),
                      !.ret = ConnRef(id)]
       ELSE [w EXCEPT !.ret = Err("factory", d)]

\* c.ConnectionFactory.New(), dispatched on the factory installed
FactoryNew(w, d) ==
    LET r == IF w.ConnectionFactory.kind = "default"
             THEN DefaultNew(w, d) ELSE CustomNew(w, d)
    IN Log(r, Event("New", 0, <<>>, r.ret))

\* ws.NewConnection(conn, opts): outcome e of the environment
NewConnection(w, raw, opts, e) ==
    Log([w EXCEPT !.ret = Err("wrap", e)],
        Event("NewConnection", raw, <<>>, Err("wrap", e)))

\* ------------------------------------------------------------- WSClient
\* Connect with the Session stored before the wrapping error is looked at
DoConnect_PartialSession(w, d, e) ==
    LET w1 == IF w.ConnectionFactory = NilFactory
              THEN [w EXCEPT !.ConnectionFactory =
                        DefaultWSConnectionFactory(w.ServerAddress, w.AuthInfo)]
              ELSE w
        n == FactoryNew(w1, d)
        raw == n.ret[2]
        k == NewConnection(n, raw, n.ConnectionOptions, e)
    IN IF n.ret[1] # "conn"
       THEN n
       ELSE [k EXCEPT !.Session =
                          WSSession(k.ServerAddress,
                                    [raw |-> raw, opts |-> k.ConnectionOptions])]

\* Connect that keeps the Session it already has
DoConnect_KeepsOld(w, d, e) ==
    LET w1 == IF w.ConnectionFactory = NilFactory
              THEN [w EXCEPT !.ConnectionFactory =
                        DefaultWSConnectionFactory(w.ServerAddress, w.AuthInfo)]
              ELSE w
        n == FactoryNew(w1, d)
        raw == n.ret[2]
        k == NewConnection(n, raw, n.ConnectionOptions, e)
    IN IF n.ret[1] # "conn"
       THEN n
       ELSE IF k.ret # Nil
            THEN k
            ELSE IF k.Session # NilSession
                 THEN [k EXCEPT !.ret = Nil]
                 ELSE [k EXCEPT !.Session =
                                    WSSession(k.ServerAddress,
                                              [raw |-> raw, opts |-> k.ConnectionOptions]),
                                !.ret = Nil]

\* Connect that installs the default factory whatever the field holds
DoConnect_AlwaysDefault(w, d, e) ==
    LET w1 == [w EXCEPT !.ConnectionFactory =
                   DefaultWSConnectionFactory(w.ServerAddress, w.AuthInfo)]
        n == FactoryNew(w1, d)
        raw == n.ret[2]
        k == NewConnection(n, raw, n.ConnectionOptions, e)
    IN IF n.ret[1] # "conn"
       THEN n
       ELSE IF k.ret # Nil
            THEN k
            ELSE [k EXCEPT !.Session =
                               WSSession(k.ServerAddress,
                                         [raw |-> raw, opts |-> k.ConnectionOptions]),
                           !.ret = Nil]

\* WSClient.Connect; d and e are the outcomes of New and of NewConnection
DoConnect(w, d, e) ==
    LET w1 == IF w.ConnectionFactory = NilFactory
              THEN [w EXCEPT !.ConnectionFactory =
                        DefaultWSConnectionFactory(w.ServerAddress, w.AuthInfo)]
              ELSE w
        n == FactoryNew(w1, d)
        raw == n.ret[2]
        k == NewConnection(n, raw, n.ConnectionOptions, e)
    IN IF n.ret[1] # "conn"
       THEN n
       ELSE IF k.ret # Nil
            THEN k
            ELSE [k EXCEPT !.Session =
                               WSSession(k.ServerAddress,
                                         [raw |-> raw, opts |-> k.ConnectionOptions]),
                           !.ret = Nil]

\* Connection.Close() of the session's connection: outcome x of the
\* environment, and whether the connection ended up closed when Close failed
Close(w, x, closed) ==
    LET id == w.Session.Connection.raw
        w1 == Log(w, Event("Close", id, <<>>, Err("close", x)))
    IN [w1 EXCEPT !.conns[id].state = IF x = 0 \/ closed THEN "closed" ELSE @,
                  !.conns[id].closes = @ + 1,
                  !.ret = Err("close", x)]

\* Disconnect that drops the Session only when Close succeeded
DoDisconnect_KeepsOnError(w, x, closed) ==
    LET w1 == IF w.Session # NilSession
              THEN Close(w, x, closed)
              ELSE [w EXCEPT !.ret = Nil]
    IN IF w1.ret = Nil THEN [w1 EXCEPT !.Session = NilSession] ELSE w1

\* Disconnect that reports a missing Session
DoDisconnect_Strict(w, x, closed) ==
    LET w1 == IF w.Session # NilSession
              THEN Close(w, x, closed)
              ELSE [w EXCEPT !.ret = NoActiveSession]
    IN [w1 EXCEPT !.Session = NilSession]

\* WSClient.Disconnect
DoDisconnect(w, x, closed) ==
    LET w1 == IF w.Session # NilSession
              THEN Close(w, x, closed)
              ELSE [w EXCEPT !.ret = Nil]
    IN [w1 EXCEPT !.Session = NilSession]

\* Reconnect that connects whatever Disconnect returned
DoReconnect_Always(w, x, closed, d, e) ==
    LET dis == DoDisconnect(w, x, closed)
    IN DoConnect(dis, d, e)

\* Reconnect that tries Connect a second time when the first try failed
DoReconnect_Retry(w, x, closed, d, e) ==
    LET dis == DoDisconnect(w, x, closed)
        try == DoConnect(dis, d, e)
    IN IF dis.ret = Nil
       THEN IF try.ret = Nil THEN try ELSE DoConnect(try, d, e)
       ELSE dis

\* WSClient.Reconnect
DoReconnect(w, x, closed, d, e) ==
    LET dis == DoDisconnect(w, x, closed)
    IN IF dis.ret = Nil THEN DoConnect(dis, d, e) ELSE dis

\* WSClient.SendMessage: msgp.Encode writes to the session's connection, with
\* outcome x of the environment; a write on a closed connection fails
DoSendMessage(w, x, closed) ==
    LET id == w.Session.Connection.raw
        res == Err("write", x)
        w1 == Log(w, Event("Write", id, <<>>, res))
    IN IF w.Session = NilSession
       THEN [w EXCEPT !.ret = NoActiveSession]
       ELSE [w1 EXCEPT !.conns[id].state = IF x # 0 /\ closed THEN "closed" ELSE @,
                       !.ret = res]

\* Listen without the check of the Session: the nil pointer is dereferenced
DoListen_NoCheck(w, x) ==
    LET id == w.Session.Connection.raw
        res == Err("listen", x)
        w1 == Log(w, Event("Listen", id, <<>>, res))
    IN IF w.Session = NilSession
       THEN [w EXCEPT !.ret = Panic]
       ELSE [w1 EXCEPT !.conns[id].state = "closed", !.ret = res]

\* Listen that drops the Session once its connection has reported closure
DoListen_ClearsSession(w, x) ==
    LET id == w.Session.Connection.raw
        res == Err("listen", x)
        w1 == Log(w, Event("Listen", id, <<>>, res))
    IN IF w.Session = NilSession \/ w.Session.Connection.raw = 0
       THEN [w EXCEPT !.ret = NoActiveSession]
       ELSE [w1 EXCEPT !.conns[id].state = "closed", !.ret = res,
                       !.Session = NilSession]

\* WSClient.Listen: the read loop runs until the connection is closed or a
\* read fails, and returns that outcome x
DoListen(w, x) ==
    LET id == w.Session.Connection.raw
        res == Err("listen", x)
        w1 == Log(w, Event("Listen", id, <<>>, res))
    IN IF w.Session = NilSession \/ w.Session.Connection.raw = 0
       THEN [w EXCEPT !.ret = NoActiveSession]
       ELSE [w1 EXCEPT !.conns[id].state = "closed", !.ret = res]

\* a call of the controlling thread returns: the client and the environment
\* take the values the method left, and the call is recorded
Return(op, r) ==
    /\ ConnectionFactory' = r.ConnectionFactory
    /\ ServerAddress' = r.ServerAddress
    /\ AuthInfo' = r.AuthInfo
    /\ ConnectionOptions' = r.ConnectionOptions
    /\ Session' = r.Session
    /\ conns' = r.conns
    /\ token' = r.token
    /\ call' = [op |-> op, pre |-> Session, trace |-> r.trace, ret |-> r.ret]
    /\ UNCHANGED authProcVars

Outcomes == 0..NumErrs

\* a successful New needs a connection the environment can still open
CanOpen(d) == d = 0 => Len(conns) < MaxConns

Connect ==
    \E d \in Outcomes, e \in Outcomes :
        /\ CanOpen(d)
        /\ d # 0 => e = 0
        /\ Return("Connect", DoConnect(World, d, e))

Disconnect ==
    \E x \in Outcomes, closed \in BOOLEAN :
        /\ (x = 0 \/ Session = NilSession) => closed
        /\ Session = NilSession => x = 0
        /\ Return("Disconnect", DoDisconnect(World, x, closed))

Reconnect ==
    \E x \in Outcomes, closed \in BOOLEAN, d \in Outcomes, e \in Outcomes :
        /\ (x = 0 \/ Session = NilSession) => closed
        /\ Session = NilSession => x = 0
        /\ x # 0 => d = 0 /\ e = 0
        /\ x = 0 => CanOpen(d)
        /\ d # 0 => e = 0
        /\ Return("Reconnect", DoReconnect(World, x, closed, d, e))

SendMessage ==
    \E x \in Outcomes, closed \in BOOLEAN :
        /\ (x = 0 \/ Session = NilSession) => ~closed
        /\ Session = NilSession => x = 0
        /\ Session # NilSession =>
              (conns[Session.Connection.raw].state = "closed" => x # 0)
        /\ Return("SendMessage", DoSendMessage(World, x, closed))

Listen ==
    \E x \in Outcomes :
        /\ Session = NilSession => x = 0
        /\ Return("Listen", DoListen(World, x))

\* a collaborator that shares the AuthInfo refreshes the token between two
\* calls of the controlling thread
Refresh ==
    \E t \in Tokens :
        /\ AuthInfo # "nil"
        /\ Str(t) # token
        /\ token' = SetIAMToken(World, t).token
        /\ UNCHANGED <<clientVars, authProcVars>>

Init ==
    /\ ConnectionFactory \in {NilFactory, CustomFactory}
    /\ ServerAddress \in Addrs
    /\ AuthInfo \in {"nil", "ai"}
    /\ ConnectionOptions = "opts"
    /\ Session = NilSession
    /\ conns = <<>>
    /\ token \in {Str(t) : t \in Tokens}
    /\ AuthInfo = "nil" => token = Str(0)
    /\ mutex = [w |-> 0, readers |-> {}]
    /\ call = NoCall
    /\ pc = [p \in Procs |-> "idle"]
    /\ loc = [p \in Procs |-> NoLocals]
    /\ hist = [vals |-> <<token.data>>, done |-> 1, started |-> 0]

Next ==
    \/ Connect
    \/ Disconnect
    \/ Reconnect
    \/ SendMessage
    \/ Listen
    \/ Refresh

Spec == Init /\ [][Next]_vars

\* ------------------------------------------ IAMAuthInfo, step by step
\* sync.RWMutex: w is the writer that holds or awaits the lock (it holds the
\* writer mutex and has announced itself, so no new reader enters), readers
\* are the holders of the read lock
Step(p, to) == pc' = [pc EXCEPT ![p] = to]

\* a caller starts IAMToken(): it has seen the writes whose calls returned
CallIAMToken(p) ==
    /\ pc[p] = "idle"
    /\ hist.started < MaxOps
    /\ Step(p, "RLock")
    /\ loc' = [loc EXCEPT ![p] = [NoLocals EXCEPT !.op = "IAMToken", !.start = hist.done]]
    /\ hist' = [hist EXCEPT !.started = @ + 1]
    /\ UNCHANGED <<clientVars, token, mutex>>

\* a read lock that a writer does not keep out
IAMToken_RLock_IgnoresWriter(p) ==
    /\ pc[p] = "RLock"
    /\ mutex' = [mutex EXCEPT !.readers = @ \cup {p}]
    /\ Step(p, "ReadData")
    /\ UNCHANGED <<clientVars, token, loc, hist>>

\* ai.mutex.RLock()
IAMToken_RLock(p) ==
    /\ pc[p] = "RLock"
    /\ mutex.w = 0
    /\ mutex' = [mutex EXCEPT !.readers = @ \cup {p}]
    /\ Step(p, "ReadData")
    /\ UNCHANGED <<clientVars, token, loc, hist>>

\* return ai.token: the two words of the string are copied one by one
IAMToken_ReadData(p) ==
    /\ pc[p] = "ReadData"
    /\ loc' = [loc EXCEPT ![p].data = token.data]
    /\ Step(p, "ReadLen")
    /\ UNCHANGED <<clientVars, token, mutex, hist>>

IAMToken_ReadLen(p) ==
    /\ pc[p] = "ReadLen"
    /\ loc' = [loc EXCEPT ![p].len = token.len]
    /\ Step(p, "RUnlock")
    /\ UNCHANGED <<clientVars, token, mutex, hist>>

\* defer ai.mutex.RUnlock()
IAMToken_RUnlock(p) ==
    /\ pc[p] = "RUnlock"
    /\ mutex' = [mutex EXCEPT !.readers = @ \ {p}]
    /\ Step(p, "Return")
    /\ UNCHANGED <<clientVars, token, loc, hist>>

\* IAMToken() returns the copy (loc[p].data, loc[p].len)
IAMToken_Return(p) ==
    /\ pc[p] = "Return"
    /\ loc[p].op = "IAMToken"
    /\ loc' = [loc EXCEPT ![p] = NoLocals]
    /\ Step(p, "idle")
    /\ UNCHANGED <<clientVars, token, mutex, hist>>

\* a caller starts SetIAMToken(t)
CallSetIAMToken(p, t) ==
    /\ pc[p] = "idle"
    /\ hist.started < MaxOps
    /\ Step(p, "Lock")
    /\ loc' = [loc EXCEPT ![p] = [NoLocals EXCEPT !.op = "SetIAMToken", !.arg = t]]
    /\ hist' = [hist EXCEPT !.started = @ + 1]
    /\ UNCHANGED <<clientVars, token, mutex>>

\* ai.mutex.Lock(), first half: exclude the other writers and new readers
SetIAMToken_Lock(p) ==
    /\ pc[p] = "Lock"
    /\ mutex.w = 0
    /\ mutex' = [mutex EXCEPT !.w = p]
    /\ Step(p, "LockWait")
    /\ UNCHANGED <<clientVars, token, loc, hist>>

\* a write lock that does not wait for the active readers
SetIAMToken_LockWait_NoWait(p) ==
    /\ pc[p] = "LockWait"
    /\ Step(p, "WriteData")
    /\ UNCHANGED <<clientVars, token, mutex, loc, hist>>

\* ai.mutex.Lock(), second half: wait until the active readers have left
SetIAMToken_LockWait(p) ==
    /\ pc[p] = "LockWait"
    /\ mutex.readers = {}
    /\ Step(p, "WriteData")
    /\ UNCHANGED <<clientVars, token, mutex, loc, hist>>

\* ai.token = token: the two words of the string are stored one by one
SetIAMToken_WriteData(p) ==
    /\ pc[p] = "WriteData"
    /\ token' = [token EXCEPT !.data = Str(loc[p].arg).data]
    /\ Step(p, "WriteLen")
    /\ UNCHANGED <<clientVars, mutex, loc, hist>>

SetIAMToken_WriteLen(p) ==
    /\ pc[p] = "WriteLen"
    /\ token' = [token EXCEPT !.len = Str(loc[p].arg).len]
    /\ hist' = [hist EXCEPT !.vals = Append(@, loc[p].arg)]
    /\ loc' = [loc EXCEPT ![p].idx = Len(hist.vals) + 1]
    /\ Step(p, "Unlock")
    /\ UNCHANGED <<clientVars, mutex>>

\* defer ai.mutex.Unlock()
SetIAMToken_Unlock(p) ==
    /\ pc[p] = "Unlock"
    /\ mutex' = [mutex EXCEPT !.w = 0]
    /\ Step(p, "Return")
    /\ UNCHANGED <<clientVars, token, loc, hist>>

\* SetIAMToken returns: its write is now a completed one
SetIAMToken_Return(p) ==
    /\ pc[p] = "Return"
    /\ loc[p].op = "SetIAMToken"
    /\ hist' = [hist EXCEPT !.done = IF loc[p].idx > @ THEN loc[p].idx ELSE @]
    /\ loc' = [loc EXCEPT ![p] = NoLocals]
    /\ Step(p, "idle")
    /\ UNCHANGED <<clientVars, token, mutex>>

NextAuth ==
    \/ \E p \in Procs : CallIAMToken(p)
    \/ \E p \in Procs : IAMToken_RLock(p)
    \/ \E p \in Procs : IAMToken_ReadData(p)
    \/ \E p \in Procs : IAMToken_ReadLen(p)
    \/ \E p \in Procs : IAMToken_RUnlock(p)
    \/ \E p \in Procs : IAMToken_Return(p)
    \/ \E p \in Procs, t \in Tokens : CallSetIAMToken(p, t)
    \/ \E p \in Procs : SetIAMToken_Lock(p)
    \/ \E p \in Procs : SetIAMToken_LockWait(p)
    \/ \E p \in Procs : SetIAMToken_WriteData(p)
    \/ \E p \in Procs : SetIAMToken_WriteLen(p)
    \/ \E p \in Procs : SetIAMToken_Unlock(p)
    \/ \E p \in Procs : SetIAMToken_Return(p)

\* the callers share one IAMAuthInfo, referenced by a client that stays idle
InitAuth ==
    /\ Init
    /\ ConnectionFactory = NilFactory
    /\ ServerAddress = 1
    /\ AuthInfo = "ai"

SpecAuth == InitAuth /\ [][NextAuth]_vars

\* ------------------------------------- WSClient, two threads step by step
\* the controlling thread calls Connect, Disconnect and Reconnect; a second
\* thread calls Listen and SendMessage. Nothing synchronises c.Session.
Ctl == 1

Wrk == 2

raceFrame == <<ServerAddress, AuthInfo, ConnectionOptions, token, mutex, call, hist>>

Goto(p, to, l) ==
    /\ pc' = [pc EXCEPT ![p] = to]
    /\ loc' = [loc EXCEPT ![p] = l]

\* a nil dereference panics, and the panic of a goroutine ends the program
Running == pc[Wrk] # "panicked"

\* a read of c.Session that follows an earlier read s with no synchronisation
\* in between: the build may load the field again or reuse the loaded value
Reload(s) == {Session, s}

\* Connect on the controlling thread, called directly or by Reconnect
Ctl_Connect ==
    \E d \in Outcomes, e \in Outcomes :
        LET r == DoConnect(World, d, e)
        IN /\ Running
           /\ pc[Ctl] \in {"idle", "Reconnect_133"}
           /\ CanOpen(d)
           /\ d # 0 => e = 0
           /\ ConnectionFactory' = r.ConnectionFactory
           /\ Session' = r.Session
           /\ conns' = r.conns
           /\ Goto(Ctl, "idle", NoLocals)
           /\ UNCHANGED raceFrame

\* Disconnect, lines 120 to 123: the Session's connection is closed
Disconnect_120(op) ==
    \E x \in Outcomes, closed \in BOOLEAN :
        LET r == IF Session # NilSession
                 THEN Close(World, x, closed)
                 ELSE [World EXCEPT !.ret = Nil]
        IN /\ Running
           /\ pc[Ctl] = "idle"
           /\ (x = 0 \/ Session = NilSession) => closed
           /\ Session = NilSession => x = 0
           /\ conns' = r.conns
           /\ Goto(Ctl, "Disconnect_125",
                   [NoLocals EXCEPT !.op = op, !.sess = Session,
                                    !.trace = r.trace, !.ret = r.ret])
           /\ UNCHANGED <<raceFrame, ConnectionFactory, Session>>

\* Disconnect, line 125: c.Session = nil, and the return to the caller, which
\* is Reconnect at line 132 when Reconnect made the call
Disconnect_125 ==
    /\ Running
    /\ pc[Ctl] = "Disconnect_125"
    /\ Session' = NilSession
    /\ IF loc[Ctl].op = "Reconnect" /\ loc[Ctl].ret = Nil
       THEN Goto(Ctl, "Reconnect_133", loc[Ctl])
       ELSE Goto(Ctl, "idle", NoLocals)
    /\ UNCHANGED <<raceFrame, ConnectionFactory, conns>>

\* the second thread calls Listen or SendMessage
Wrk_Call(op) ==
    /\ Running
    /\ pc[Wrk] = "idle"
    /\ Goto(Wrk, IF op = "Listen" THEN "Listen_152" ELSE "SendMessage_141",
            [NoLocals EXCEPT !.op = op])
    /\ UNCHANGED <<raceFrame, ConnectionFactory, Session, conns>>

\* Listen, line 152, first operand: c.Session == nil
Listen_152 ==
    /\ Running
    /\ pc[Wrk] = "Listen_152"
    /\ IF Session = NilSession
       THEN Goto(Wrk, "Return", [loc[Wrk] EXCEPT !.ret = NoActiveSession])
       ELSE Goto(Wrk, "Listen_152b", [loc[Wrk] EXCEPT !.chk = Session])
    /\ UNCHANGED <<raceFrame, ConnectionFactory, Session, conns>>

\* Listen, line 152, second operand: c.Session.Connection == nil
Listen_152b ==
    \E s \in Reload(loc[Wrk].chk) :
        /\ Running
        /\ pc[Wrk] = "Listen_152b"
        /\ IF s = NilSession
           THEN Goto(Wrk, "panicked", [loc[Wrk] EXCEPT !.ret = Panic])
           ELSE IF s.Connection.raw = 0
           THEN Goto(Wrk, "Return", [loc[Wrk] EXCEPT !.ret = NoActiveSession])
           ELSE Goto(Wrk, "Listen_156", loc[Wrk])
        /\ UNCHANGED <<raceFrame, ConnectionFactory, Session, conns>>

\* Listen, line 156: c.Session.Connection is read and its Listen is called
Listen_156 ==
    \E s \in Reload(loc[Wrk].chk) :
        /\ Running
        /\ pc[Wrk] = "Listen_156"
        /\ IF s = NilSession
           THEN Goto(Wrk, "panicked", [loc[Wrk] EXCEPT !.ret = Panic])
           ELSE Goto(Wrk, IF conns[s.Connection.raw].state = "open"
                          THEN "Listening" ELSE "Listen_closed",
                     [loc[Wrk] EXCEPT !.sess = s])
        /\ UNCHANGED <<raceFrame, ConnectionFactory, Session, conns>>

\* what Connection.Listen reported to its caller
Reported(p, ev, res) ==
    [loc[p] EXCEPT !.trace =
        Append(@, Event(ev, loc[p].sess.Connection.raw, <<>>, res))]

\* Connection.Listen on a connection that is closed already: the read fails
ConnListen_Closed ==
    \E i \in 1..NumErrs :
        /\ Running
        /\ pc[Wrk] = "Listen_closed"
        /\ Goto(Wrk, "Listen_156ret", Reported(Wrk, "Listen", Err("listen", i)))
        /\ UNCHANGED <<raceFrame, ConnectionFactory, Session, conns>>

\* the peer closes the connection (x = 0) or a read fails for good while
\* Connection.Listen is blocked in a receive
ConnListen_PeerEnds ==
    \E x \in Outcomes :
        /\ Running
        /\ pc[Wrk] = "Listening"
        /\ conns[loc[Wrk].sess.Connection.raw].state = "open"
        /\ conns' = [conns EXCEPT ![loc[Wrk].sess.Connection.raw].state = "closed"]
        /\ Goto(Wrk, "Listen_156ret", Reported(Wrk, "Listen", Err("listen", x)))
        /\ UNCHANGED <<raceFrame, ConnectionFactory, Session>>

\* Close on another thread has closed the connection: the pending receive of
\* Connection.Listen is unblocked with an error
ConnListen_Unblocked ==
    \E i \in 1..NumErrs :
        /\ Running
        /\ pc[Wrk] = "Listening"
        /\ conns[loc[Wrk].sess.Connection.raw].state = "closed"
        /\ Goto(Wrk, "Listen_156ret",
                Reported(Wrk, "ListenUnblocked", Err("listen", i)))
        /\ UNCHANGED <<raceFrame, ConnectionFactory, Session, conns>>

\* Listen that calls Connection.Listen again when it has reported an error
Listen_Return_Again ==
    /\ Running
    /\ pc[Wrk] = "Listen_156ret"
    /\ IF loc[Wrk].trace[Len(loc[Wrk].trace)].res = Nil
       THEN Goto(Wrk, "Return", [loc[Wrk] EXCEPT !.ret = Nil])
       ELSE Goto(Wrk, "Listen_closed", [loc[Wrk] EXCEPT !.trace = <<>>])
    /\ UNCHANGED <<raceFrame, ConnectionFactory, Session, conns>>

\* Listen, line 156: what Connection.Listen reported is returned
Listen_Return ==
    /\ Running
    /\ pc[Wrk] = "Listen_156ret"
    /\ Goto(Wrk, "Return",
            [loc[Wrk] EXCEPT !.ret = loc[Wrk].trace[Len(loc[Wrk].trace)].res])
    /\ UNCHANGED <<raceFrame, ConnectionFactory, Session, conns>>

\* SendMessage, line 141: c.Session == nil
SendMessage_141 ==
    /\ Running
    /\ pc[Wrk] = "SendMessage_141"
    /\ IF Session = NilSession
       THEN Goto(Wrk, "Return", [loc[Wrk] EXCEPT !.ret = NoActiveSession])
       ELSE Goto(Wrk, "SendMessage_146", [loc[Wrk] EXCEPT !.chk = Session])
    /\ UNCHANGED <<raceFrame, ConnectionFactory, Session, conns>>

\* SendMessage, line 146: c.Session.Connection is read and written to
SendMessage_146 ==
    \E s \in Reload(loc[Wrk].chk), x \in Outcomes, closed \in BOOLEAN :
        LET r == DoSendMessage([World EXCEPT !.Session = s], x, closed)
        IN /\ Running
           /\ pc[Wrk] = "SendMessage_146"
           /\ (x = 0 \/ s = NilSession) => ~closed
           /\ s = NilSession => x = 0
           /\ s # NilSession => (conns[s.Connection.raw].state = "closed" => x # 0)
           /\ conns' = r.conns
           /\ IF s = NilSession
              THEN Goto(Wrk, "panicked", [loc[Wrk] EXCEPT !.ret = Panic])
              ELSE Goto(Wrk, "Return",
                        [loc[Wrk] EXCEPT !.sess = s, !.trace = r.trace,
                                         !.ret = r.ret])
           /\ UNCHANGED <<raceFrame, ConnectionFactory, Session>>

\* the call of the second thread returns to its caller
Wrk_Return ==
    /\ Running
    /\ pc[Wrk] = "Return"
    /\ Goto(Wrk, "idle", NoLocals)
    /\ UNCHANGED <<raceFrame, ConnectionFactory, Session, conns>>

\* the steps a thread takes by itself once it is inside a call
CtlRun == Disconnect_125 \/ (pc[Ctl] = "Reconnect_133" /\ Ctl_Connect)

WrkRun ==
    \/ Listen_152
    \/ Listen_152b
    \/ Listen_156
    \/ ConnListen_Closed
    \/ ConnListen_Unblocked
    \/ Listen_Return
    \/ SendMessage_141
    \/ SendMessage_146
    \/ Wrk_Return

NextRace ==
    \/ Ctl_Connect
    \/ \E op \in {"Disconnect", "Reconnect"} : Disconnect_120(op)
    \/ Disconnect_125
    \/ \E op \in {"Listen", "SendMessage"} : Wrk_Call(op)
    \/ Listen_152
    \/ Listen_152b
    \/ Listen_156
    \/ ConnListen_Closed
    \/ ConnListen_PeerEnds
    \/ ConnListen_Unblocked
    \/ Listen_Return
    \/ SendMessage_141
    \/ SendMessage_146
    \/ Wrk_Return

\* a client with a caller-supplied factory and no credential
InitRace ==
    /\ Init
    /\ ConnectionFactory = CustomFactory
    /\ ServerAddress = 1
    /\ AuthInfo = "nil"

\* a thread that is inside a call keeps running: the Go scheduler leaves no
\* runnable goroutine behind. Nothing forces a caller to make a call or the
\* peer to end a connection.
SpecRace ==
    /\ InitRace
    /\ [][NextRace]_vars
    /\ WF_vars(CtlRun)
    /\ WF_vars(WrkRun)

\* ------------------------------ DefaultWSConnectionFactory.New, step by step
\* one thread calls New on the factory while a collaborator that shares the
\* IAMAuthInfo replaces the token (Refresh)
New_Call ==
    /\ Running
    /\ pc[Ctl] = "idle"
    /\ Len(conns) < MaxConns
    /\ Goto(Ctl, "New_70", [NoLocals EXCEPT !.op = "New"])
    /\ UNCHANGED <<clientVars, token, mutex, hist>>

\* line 70: wcf.AuthInfo != nil && len(wcf.AuthInfo.IAMToken()) > 0
New_70 ==
    LET wcf == ConnectionFactory
        check == IAMToken(World)
        read == Event("IAMToken", 0, <<>>, <<"token", check.data>>)
    IN /\ Running
       /\ pc[Ctl] = "New_70"
       /\ IF wcf.AuthInfo = "nil"
          THEN Goto(Ctl, "New_74", loc[Ctl])
          ELSE Goto(Ctl, IF StrLen(check) > 0 THEN "New_71" ELSE "New_74",
                    [loc[Ctl] EXCEPT !.trace = Append(@, read)])
       /\ UNCHANGED <<clientVars, token, mutex, hist>>

\* line 71: header.Add(AuthorizationHeader, wcf.AuthInfo.IAMToken())
New_71 ==
    LET value == IAMToken(World)
        read == Event("IAMToken", 0, <<>>, <<"token", value.data>>)
        add == HeaderAdd(loc[Ctl].header, value.data)
    IN /\ Running
       /\ pc[Ctl] = "New_71"
       /\ IF add.panic
          THEN Goto(Ctl, "Return",
                    [loc[Ctl] EXCEPT !.trace = Append(@, read), !.ret = Panic])
          ELSE Goto(Ctl, "New_74",
                    [loc[Ctl] EXCEPT !.trace = Append(@, read),
                                     !.header = add.header])
       /\ UNCHANGED <<clientVars, token, mutex, hist>>

\* lines 74 to 77: the dial, and its result handed back
New_74 ==
    \E d \in Outcomes :
        LET wcf == ConnectionFactory
            r == Dial([World EXCEPT !.trace = loc[Ctl].trace],
                      wcf.ServerAddress, loc[Ctl].header, d)
        IN /\ Running
           /\ pc[Ctl] = "New_74"
           /\ conns' = r.conns
           /\ Goto(Ctl, "Return", [loc[Ctl] EXCEPT !.trace = r.trace, !.ret = r.ret])
           /\ UNCHANGED <<ConnectionFactory, ServerAddress, AuthInfo,
                          ConnectionOptions, Session, call, token, mutex, hist>>

\* New returns to its caller (or the panic unwinds to it)
New_Return ==
    /\ Running
    /\ pc[Ctl] = "Return"
    /\ call' = [op |-> "New", pre |-> Session, trace |-> loc[Ctl].trace,
                ret |-> loc[Ctl].ret]
    /\ Goto(Ctl, "idle", NoLocals)
    /\ UNCHANGED <<ConnectionFactory, ServerAddress, AuthInfo,
                   ConnectionOptions, Session, conns, token, mutex, hist>>

NextNew ==
    \/ New_Call
    \/ New_70
    \/ New_71
    \/ New_74
    \/ New_Return
    \/ Refresh

\* a default factory that was built for a client with a credential
InitNew ==
    /\ ServerAddress \in Addrs
    /\ AuthInfo = "ai"
    /\ ConnectionFactory = DefaultWSConnectionFactory(ServerAddress, AuthInfo)
    /\ ConnectionOptions = "opts"
    /\ Session = NilSession
    /\ conns = <<>>
    /\ token \in {Str(t) : t \in Tokens}
    /\ mutex = [w |-> 0, readers |-> {}]
    /\ call = NoCall
    /\ pc = [p \in Procs |-> "idle"]
    /\ loc = [p \in Procs |-> NoLocals]
    /\ hist = [vals |-> <<token.data>>, done |-> 1, started |-> 0]

SpecNew == InitNew /\ [][NextNew]_vars

\* ================================================================ claims
\* reading the record of the last call
Last(tr) == tr[Len(tr)]

Count(tr, ev) == Cardinality({i \in DOMAIN tr : tr[i].ev = ev})

IsError(r) == r[1] \in {"factory", "dial", "wrap", "close", "write", "listen"}

\* the last call got an error from New or from NewConnection
ConnectFailed ==
    /\ call.trace # <<>>
    /\ Last(call.trace).ev \in {"New", "NewConnection"}
    /\ IsError(Last(call.trace).res)

\* the last call got a raw connection from New and wrapped it
ConnectSucceeded ==
    /\ Len(call.trace) >= 2
    /\ Last(call.trace).ev = "NewConnection"
    /\ Last(call.trace).res = Nil
    /\ call.trace[Len(call.trace) - 1].ev = "New"
    /\ call.trace[Len(call.trace) - 1].res[1] = "conn"

\* the raw connection that the New of the last call returned
NewRaw == call.trace[Len(call.trace) - 1].res[2]

\* C1 (as stated): a Connect that fails returns the error of New or of
\* NewConnection unchanged and leaves WSClient.Session nil
C1_FailedConnectLeavesNoSession ==
    (call.op = "Connect" /\ ConnectFailed) =>
        /\ call.ret = Last(call.trace).res
        /\ Session = NilSession

\* C1 (amended): a Connect that fails returns the error of New or of
\* NewConnection unchanged and stores no Session: WSClient.Session is what it
\* was before the call, nil if the client was disconnected
C1_FailedConnectKeepsSession ==
    (call.op = "Connect" /\ ConnectFailed) =>
        /\ call.ret = Last(call.trace).res
        /\ Session = call.pre
        /\ call.pre = NilSession => Session = NilSession

C1_Witness ==
    /\ call.op = "Connect"
    /\ ConnectFailed
    /\ call.ret \in Errs("wrap")
    /\ call.pre # NilSession

\* C2: after a Disconnect, WSClient.Session is nil whatever Close returned,
\* and when there was a Session, Disconnect called Close on its connection
\* once and returned what Close returned
C2_DisconnectClearsSession ==
    call.op = "Disconnect" =>
        /\ Session = NilSession
        /\ call.pre # NilSession =>
              /\ Len(call.trace) = 1
              /\ call.trace[1].ev = "Close"
              /\ call.trace[1].obj = call.pre.Connection.raw
              /\ call.ret = call.trace[1].res

C2_Witness ==
    /\ call.op = "Disconnect"
    /\ call.pre # NilSession
    /\ call.ret \in Errs("close")
    /\ Session = NilSession

\* C3: a Disconnect without a Session returns nil, calls no Close and
\* changes no connection; the second of two Disconnects in a row is such a
\* call, whatever the first returned, so the connection of the Session has
\* got exactly one Close
C3_DisconnectTwice ==
    [][(call'.op = "Disconnect" /\ Disconnect) =>
          /\ Session = NilSession =>
                /\ call'.ret = Nil
                /\ call'.trace = <<>>
                /\ conns' = conns
                /\ Session' = NilSession
          /\ (call.op = "Disconnect" /\ call.pre # NilSession) =>
                /\ Session = NilSession
                /\ call'.ret = Nil
                /\ call'.trace = <<>>
                /\ conns'[call.pre.Connection.raw].closes = 1]_vars

\* the second Disconnect has returned nil; the Close of the first one had
\* failed and left the connection open
C3_Witness ==
    /\ call.op = "Disconnect"
    /\ call.pre = NilSession
    /\ call.ret = Nil
    /\ conns # <<>>
    /\ Last(conns).closes = 1
    /\ Last(conns).state = "open"

\* the Disconnect of the last call, a Reconnect, got an error from Close
ReconnectCloseFailed ==
    /\ call.op = "Reconnect"
    /\ call.trace # <<>>
    /\ call.trace[1].ev = "Close"
    /\ call.trace[1].res # Nil

\* C4: when Close fails inside Reconnect, Reconnect returns that error, New
\* is not called and WSClient.Session is nil
C4_ReconnectStopsOnCloseError ==
    ReconnectCloseFailed =>
        /\ call.ret = call.trace[1].res
        /\ Count(call.trace, "New") = 0
        /\ Len(call.trace) = 1
        /\ Session = NilSession

C4_Witness ==
    /\ ReconnectCloseFailed
    /\ call.ret \in Errs("close")
    /\ call.pre # NilSession

\* the Disconnect of the last call, a Reconnect, returned nil
ReconnectDisconnected ==
    /\ call.op = "Reconnect"
    /\ call.pre # NilSession =>
          /\ call.trace # <<>>
          /\ call.trace[1].ev = "Close"
          /\ call.trace[1].res = Nil

\* C5: when its Disconnect succeeds, Reconnect calls New exactly once, after
\* Close has returned, returns what that Connect returned, and on success the
\* Session holds the connection that New opened, not the old one
C5_ReconnectConnectsOnce ==
    ReconnectDisconnected =>
        /\ Count(call.trace, "New") = 1
        /\ Count(call.trace, "NewConnection") <= 1
        /\ \A i, j \in DOMAIN call.trace :
              (call.trace[i].ev = "Close" /\ call.trace[j].ev # "Close") => i < j
        /\ Last(call.trace).ev \in {"New", "NewConnection"}
        /\ call.ret = Last(call.trace).res
        /\ call.ret = Nil =>
              /\ ConnectSucceeded
              /\ Session = WSSession(ServerAddress,
                                     [raw |-> NewRaw, opts |-> ConnectionOptions])
              /\ Session # call.pre
              /\ NewRaw # call.pre.Connection.raw
              /\ conns[NewRaw].closes = 0

C5_Witness ==
    /\ ReconnectDisconnected
    /\ call.pre # NilSession
    /\ call.ret = Nil
    /\ Session # NilSession

\* C6: without a Session, SendMessage and Listen return "No active session",
\* call no collaborator (no write, no read loop, no Close, no New) and the
\* client stays disconnected
C6_NoSessionNoNetwork ==
    [][(Session = NilSession /\ (SendMessage \/ Listen)) =>
          /\ call'.ret = NoActiveSession
          /\ call'.trace = <<>>
          /\ conns' = conns
          /\ Session' = NilSession
          /\ ConnectionFactory' = ConnectionFactory]_vars

\* Listen has failed on a client that was connected and then disconnected
C6_Witness ==
    /\ call.op = "Listen"
    /\ call.pre = NilSession
    /\ call.ret = NoActiveSession
    /\ conns # <<>>
    /\ Last(conns).closes = 1

\* C7: when New and the wrapping succeed, Connect returns nil and the Session
\* pairs the ServerAddress with the wrapping of the raw connection that this
\* New returned; a SendMessage or Listen right after does not return "No
\* active session" and works on that connection
C7_ConnectStoresSession ==
    [][/\ (call'.op = "Connect" /\ ConnectSucceeded' /\ Connect) =>
             /\ call'.ret = Nil
             /\ Len(conns') = Len(conns) + 1
             /\ NewRaw' = Len(conns')
             /\ Session' = WSSession(ServerAddress,
                                     [raw |-> NewRaw', opts |-> ConnectionOptions])
       /\ (call.op = "Connect" /\ ConnectSucceeded /\ (SendMessage \/ Listen)) =>
             /\ Session # NilSession
             /\ call'.ret # NoActiveSession
             /\ Len(call'.trace) = 1
             /\ call'.trace[1].ev = (IF call'.op = "Listen" THEN "Listen" ELSE "Write")
             /\ call'.trace[1].obj = NewRaw]_vars

\* a message has been written on the connection of a second Session
C7_Witness ==
    /\ call.op = "SendMessage"
    /\ call.ret = Nil
    /\ Len(conns) = 2
    /\ Session = WSSession(ServerAddress, [raw |-> 2, opts |-> ConnectionOptions])
    /\ call.trace = <<Event("Write", 2, <<>>, Nil)>>

\* C8: the value that an IAMToken call returns is a whole token (both words
\* from one write) and is the initial token or the value of a write no older
\* than the latest SetIAMToken that had returned when the IAMToken call began
C8_Linearizable ==
    \A p \in Procs :
        (pc[p] = "Return" /\ loc[p].op = "IAMToken") =>
            /\ loc[p].data = loc[p].len
            /\ \E v \in loc[p].start..Len(hist.vals) : hist.vals[v] = loc[p].data

C8_Witness ==
    \E p \in Procs :
        /\ pc[p] = "Return"
        /\ loc[p].op = "IAMToken"
        /\ loc[p].start = 2
        /\ Len(hist.vals) = 3
        /\ hist.vals[3] # hist.vals[2]
        /\ loc[p].data = hist.vals[3]

InSet(p) == pc[p] \in {"WriteData", "WriteLen", "Unlock"}

InGet(p) == pc[p] \in {"ReadData", "ReadLen", "RUnlock"}

\* C9: while a SetIAMToken is in its critical section no other caller is in
\* one, and an IAMToken that asks for the read lock gets it whenever no
\* SetIAMToken holds or awaits the lock, however many readers are inside
C9_SharedReadExclusiveWrite ==
    /\ \A p, q \in Procs : (InSet(p) /\ p # q) => (~InSet(q) /\ ~InGet(q))
    /\ \A p \in Procs :
          (pc[p] = "RLock" /\ mutex.w = 0) => ENABLED IAMToken_RLock(p)

C9_Witness ==
    \E p, q, r \in Procs :
        /\ p # q
        /\ InGet(p)
        /\ InGet(q)
        /\ pc[r] = "LockWait"

\* the last call made the default factory read a non-empty token
ReadNonEmptyToken ==
    /\ ConnectionFactory.kind = "default"
    /\ ConnectionFactory.AuthInfo # "nil"
    /\ \E i \in DOMAIN call.trace :
          call.trace[i].ev = "IAMToken" /\ call.trace[i].res[2] > 0

\* C10: with an AuthInfo whose token is not empty, each New of the default
\* factory completes one dial whose header carries the token as its only
\* Authorization value, and SendMessage sends no credential
C10_DialCarriesAuthorization ==
    /\ ReadNonEmptyToken =>
          /\ Count(call.trace, "Dial") = 1
          /\ \A i \in DOMAIN call.trace :
                call.trace[i].ev = "Dial" =>
                    /\ Len(call.trace[i].hdr) = 1
                    /\ \A j \in DOMAIN call.trace :
                          call.trace[j].ev = "IAMToken" =>
                              call.trace[j].res = <<"token", call.trace[i].hdr[1]>>
    /\ call.op = "SendMessage" =>
          \A i \in DOMAIN call.trace : call.trace[i].hdr = <<>>

\* C11: no factory exists before the first Connect unless the caller supplied
\* one; only a Connect that finds the field unset installs the default
\* factory, bound to the client's ServerAddress and AuthInfo; a supplied
\* factory is never replaced; every new raw connection and every new Session
\* comes from one New of the installed factory
C11_FactoryLazyAndKept ==
    [][/\ (call = NoCall) => ConnectionFactory.kind # "default"
       /\ ConnectionFactory.kind = "default" =>
             ConnectionFactory = DefaultWSConnectionFactory(ServerAddress, AuthInfo)
       /\ ConnectionFactory # NilFactory => ConnectionFactory' = ConnectionFactory
       /\ ConnectionFactory' # ConnectionFactory =>
             /\ ConnectionFactory' = DefaultWSConnectionFactory(ServerAddress, AuthInfo)
             /\ call'.op \in {"Connect", "Reconnect"}
             /\ Count(call'.trace, "New") = 1
       /\ Len(conns') # Len(conns) =>
             /\ Len(conns') = Len(conns) + 1
             /\ Count(call'.trace, "New") = 1
             /\ \E i \in DOMAIN call'.trace :
                   /\ call'.trace[i].ev = "New"
                   /\ call'.trace[i].res = ConnRef(Len(conns'))
             /\ Count(call'.trace, "Dial") =
                   (IF ConnectionFactory'.kind = "default" THEN 1 ELSE 0)
       /\ (Session' # Session /\ Session' # NilSession) =>
             /\ Len(conns') = Len(conns) + 1
             /\ Session'.Connection.raw = Len(conns')]_vars

\* the supplied factory is still installed after a Connect and a Reconnect
\* that each got a connection from it
C11_Witness ==
    /\ ConnectionFactory = CustomFactory
    /\ AuthInfo = "ai"
    /\ call.op = "Reconnect"
    /\ call.ret = Nil
    /\ Len(conns) = 2
    /\ Session.Connection.raw = 2

\* the raw connections that are open
OpenConns == {i \in DOMAIN conns : conns[i].state = "open"}

\* C12: at most one connection opened through Connect is open at any time
C12_AtMostOneOpen == Cardinality(OpenConns) <= 1

C14_RawConnectionAccounted ==
    \A i \in DOMAIN call.trace :
        (call.trace[i].ev = "New" /\ call.trace[i].res[1] = "conn") =>
            \/ Session.Connection.raw = call.trace[i].res[2]
            \/ conns[call.trace[i].res[2]].state = "closed"

\* the last call ran New of the default factory, which found no AuthInfo or
\* read an empty token
DefaultNewWithoutCredential ==
    /\ ConnectionFactory.kind = "default"
    /\ Count(call.trace, "New") = 1
    /\ \A i \in DOMAIN call.trace :
          call.trace[i].ev = "IAMToken" => call.trace[i].res = <<"token", 0>>

\* C15: without an AuthInfo or with an empty token, New of the default
\* factory dials exactly once, to the factory's address and with no
\* Authorization value, and returns what the dial returned, connection or
\* error
C15_DialWithoutCredential ==
    DefaultNewWithoutCredential =>
        /\ Count(call.trace, "Dial") = 1
        /\ Count(call.trace, "IAMToken") =
              (IF ConnectionFactory.AuthInfo = "nil" THEN 0 ELSE 1)
        /\ \A i, j \in DOMAIN call.trace :
              (call.trace[i].ev = "Dial" /\ call.trace[j].ev = "New") =>
                  /\ j = i + 1
                  /\ call.trace[i].hdr = <<>>
                  /\ call.trace[i].obj = ServerAddress
                  /\ call.trace[j].res = call.trace[i].res
                  /\ IsError(call.trace[i].res) => call.ret = call.trace[i].res

C15_Witness ==
    /\ call.op = "Connect"
    /\ DefaultNewWithoutCredential
    /\ AuthInfo = "ai"
    /\ Count(call.trace, "IAMToken") = 1
    /\ call.ret \in Errs("dial")

\* the last call was a Connect through the default factory that read a token
\* which SetIAMToken has replaced since
TokenRefreshedSinceConnect ==
    /\ call.op = "Connect"
    /\ ConnectionFactory.kind = "default"
    /\ ConnectionFactory.AuthInfo # "nil"
    /\ \E i \in DOMAIN call.trace :
          /\ call.trace[i].ev = "IAMToken"
          /\ call.trace[i].res # <<"token", token.data>>

\* C16: the next Connect or Reconnect after the token was replaced dials
\* once, with the new token as its credential and not the one read before
C16_NextConnectUsesNewToken ==
    [][(TokenRefreshedSinceConnect /\ call'.op \in {"Connect", "Reconnect"}
            /\ Count(call'.trace, "New") = 1 /\ (Connect \/ Reconnect)) =>
          /\ Count(call'.trace, "Dial") = 1
          /\ \A i \in DOMAIN call'.trace :
                /\ call'.trace[i].ev = "IAMToken" =>
                      call'.trace[i].res = <<"token", token.data>>
                /\ call'.trace[i].ev = "Dial" =>
                      call'.trace[i].hdr =
                          (IF StrLen(token) > 0 THEN <<token.data>> ELSE <<>>)]_vars

\* C20: the Session changes only to the new Session of a successful Connect
\* or to none by Disconnect (alone or as the first half of Reconnect); a
\* Connect that does not return nil, a SendMessage and a Listen leave Session,
\* ServerAddress, AuthInfo and ConnectionOptions as they were; and no call
\* at all changes ServerAddress, AuthInfo or ConnectionOptions
C20_SessionFrame ==
    [][/\ Session' # Session =>
             \/ /\ call'.op \in {"Connect", "Reconnect"}
                /\ call'.ret = Nil
                /\ ConnectSucceeded'
                /\ Session' = WSSession(ServerAddress,
                                  [raw |-> NewRaw', opts |-> ConnectionOptions])
             \/ /\ call'.op \in {"Disconnect", "Reconnect"}
                /\ Session' = NilSession
       /\ (\/ call'.op \in {"SendMessage", "Listen"}
           \/ call'.op = "Connect" /\ call'.ret # Nil) =>
             UNCHANGED <<Session, ServerAddress, AuthInfo, ConnectionOptions>>
       /\ UNCHANGED <<ServerAddress, AuthInfo, ConnectionOptions>>]_vars

C20_Witness ==
    /\ call.op = "SendMessage"
    /\ call.ret \in Errs("write")
    /\ call.pre # NilSession
    /\ Session = call.pre
    /\ conns[Session.Connection.raw].state = "closed"

\* Listen is blocked in the receive of connection k
Blocked(k) ==
    /\ pc[Wrk] = "Listening"
    /\ loc[Wrk].sess.Connection.raw = k

\* the controlling thread is inside Disconnect and has called Close on
\* connection k, the Session's connection
DisconnectClosing(k) ==
    /\ pc[Ctl] = "Disconnect_125"
    /\ Session # NilSession
    /\ Session.Connection.raw = k

ListenReturned(rets) ==
    /\ pc[Wrk] = "Return"
    /\ loc[Wrk].op = "Listen"
    /\ loc[Wrk].trace # <<>>
    /\ loc[Wrk].ret \in rets

\* C17: a Listen that got past the check returns only once its connection
\* is closed, and returns what the connection reported; and when Disconnect
\* on the controlling thread closes the connection that Listen is blocked on,
\* Listen eventually returns an error (unless Close failed and left the
\* connection open, so that nothing was unblocked)
C17_ListenUnblockedByDisconnect ==
    /\ [](ListenReturned(Errs("listen") \cup {Nil}) =>
            /\ loc[Wrk].ret = Last(loc[Wrk].trace).res
            /\ Len(loc[Wrk].trace) = 1
            /\ conns[loc[Wrk].sess.Connection.raw].state = "closed")
    /\ [](pc[Wrk] = "Return" /\ loc[Wrk].op = "Listen" =>
            (loc[Wrk].trace # <<>> \/ loc[Wrk].ret = NoActiveSession))
    /\ \A k \in 1..MaxConns :
          (Blocked(k) /\ DisconnectClosing(k)) ~>
              \/ ListenReturned(Errs("listen"))
              \/ k \in DOMAIN conns /\ conns[k].state = "open"

C17_Witness ==
    /\ ListenReturned(Errs("listen"))
    /\ Last(loc[Wrk].trace).ev = "ListenUnblocked"
    /\ conns[loc[Wrk].sess.Connection.raw].closes = 1
    /\ Session = NilSession
    /\ pc[Ctl] = "idle"

\* Listen or SendMessage has dereferenced a Session that is nil
NilDereferenced == pc[Wrk] = "panicked"

\* C18: Listen and SendMessage never dereference a nil Session, and what
\* they operate on is the connection of the Session they checked
C18_NoNilDereference ==
    /\ ~NilDereferenced
    /\ pc[Wrk] \in {"Listening", "Listen_closed", "Listen_156ret", "Return"} =>
          \/ loc[Wrk].ret = NoActiveSession
          \/ loc[Wrk].sess = loc[Wrk].chk

\* the token reads of the New that is running or has just returned
TokenReads(tr) == {i \in DOMAIN tr : tr[i].ev = "IAMToken"}

====
